---- MODULE Spec2Model ----
(***************************************************************************)
(* QR Code Generator API: the two service functions                        *)
(*   project/api_key_verification_service.py  api_key_verification         *)
(*   project/generate_qr_code_service.py      generate_qr_code             *)
(* and the FastAPI facade project/server.py that exposes them as           *)
(*   POST /auth/verify   and   POST /qr/generate.                          *)
(*                                                                         *)
(* Python values are modelled as follows.                                  *)
(*   - Optional[T] is a set with at most one element: None == {}.          *)
(*   - The outcome of a call is a record with kind "return" (and value)    *)
(*     or kind "raise" (and exc, the exception).                           *)
(*   - An Enum member is a record [cls, name]: members of different Enum   *)
(*     classes are different values even when their names agree, which is  *)
(*     Enum.__eq__ (identity). A str-mixin member hashes like its name, as *)
(*     a plain member does, so a dict lookup is decided by equality.       *)
(*   - Strings that the code concatenates or lower-cases are sequences of  *)
(*     one-character strings.                                              *)
(***************************************************************************)
EXTENDS Integers, Sequences, FiniteSets

VARIABLES
    phase,      \* lifespan position: "starting", "serving", "stopped"
    connected,  \* db_client connection state (server.py:15-22)
    store,      \* the User table: a set of rows with unique apiKey
    pending,    \* /auth/verify handlers suspended at await find_unique
    last,       \* the call that has just completed: its arguments, the
                \* service function's outcome and the HTTP response; route
                \* "none" once the response has left
    verified    \* history: per presented key, the results that clients
                \* have received from /auth/verify so far

vars == <<phase, connected, store, pending, last, verified>>

----------------------------------------------------------------------------
(* Bounds of the model *)

\* number of /auth/verify requests that may be suspended at the same time
MaxInFlight == 2

\* number of distinct values uuid.uuid4() may produce in the model
NumUUIDs == 2

----------------------------------------------------------------------------
(* Python helpers *)

None == {}
Some(x) == {x}

Return(v) == [kind |-> "return", value |-> v]
Raise(type, msg) == [kind |-> "raise", exc |-> [type |-> type, msg |-> msg]]

\* str(e) of an exception
str(e) == e.msg

\* str.lower() on the characters the format names are made of
lower_char(c) ==
    CASE c = "P" -> "p" [] c = "N" -> "n" [] c = "G" -> "g"
      [] c = "S" -> "s" [] c = "V" -> "v"
      [] OTHER -> c

lower(s) == [i \in 1..Len(s) |-> lower_char(s[i])]

\* s.endswith(suffix)
endswith(s, suffix) ==
    /\ Len(s) >= Len(suffix)
    /\ SubSeq(s, Len(s) - Len(suffix) + 1, Len(s)) = suffix

----------------------------------------------------------------------------
(* The credential store *)

\* the keys a request may present, and the rows the User table may hold
ApiKeys == {"abc", "ABC", "ab"}

Users ==
    {[apiKey |-> "abc", id |-> "u1", role |-> "ADMIN"],
     [apiKey |-> "abc", id |-> "u2", role |-> "USER"],
     [apiKey |-> "ab", id |-> "u2", role |-> "USER"]}

\* User.apiKey is @unique and User.id is the primary key
Stores ==
    {s \in SUBSET Users :
        \A u, v \in s : (u.apiKey = v.apiKey \/ u.id = v.id) => u = v}

\* the characters of the keys of the model
key_chars(k) ==
    CASE k = "abc" -> <<"a", "b", "c">>
      [] k = "ABC" -> <<"A", "B", "C">>
      [] k = "ab" -> <<"a", "b">>

\* str.lower() on a key
key_lower(k) ==
    LET low(c) == CASE c = "A" -> "a" [] c = "B" -> "b" [] c = "C" -> "c" [] OTHER -> c
    IN [i \in 1..Len(key_chars(k)) |-> low(key_chars(k)[i])]

\* find_unique matching keys without regard to case
find_unique_insensitive(table, api_key, isConnected, fault) ==
    IF ~isConnected
    THEN Raise("ClientNotConnectedError", "Client is not connected to the query engine")
    ELSE IF fault
    THEN Raise("PrismaError", "Could not connect to the query engine")
    ELSE Return({u \in table : key_lower(u.apiKey) = key_lower(api_key)})

\* prisma.models.User.prisma().find_unique(where={"apiKey": api_key}):
\* the row whose apiKey equals api_key, or None; raises when the client is
\* not connected or the query engine reports a fault.
find_unique(table, api_key, isConnected, fault) ==
    IF ~isConnected
    THEN Raise("ClientNotConnectedError", "Client is not connected to the query engine")
    ELSE IF fault
    THEN Raise("PrismaError", "Could not connect to the query engine")
    ELSE Return({u \in table : u.apiKey = api_key})

APIKeyVerificationResponse(is_valid, user_id, role) ==
    [pytype |-> "APIKeyVerificationResponse",
     is_valid |-> is_valid, user_id |-> user_id, role |-> role]

\* api_key_verification with the role left out of the positive result
api_key_verification_without_role(lookup) ==
    IF lookup.kind = "raise" THEN lookup
    ELSE LET user == lookup.value IN
         IF user # None
         THEN LET u == CHOOSE u \in user : TRUE IN
              Return(APIKeyVerificationResponse(TRUE, Some(u.id), None))
         ELSE Return(APIKeyVerificationResponse(FALSE, None, None))

\* api_key_verification refusing a key while another verification is in flight
api_key_verification_exclusive(lookup) ==
    IF lookup.kind = "raise" THEN lookup
    ELSE LET user == lookup.value IN
         IF user # None /\ ~(\E j, k \in ApiKeys : j # k /\ pending[j] > 0 /\ pending[k] > 0)
         THEN LET u == CHOOSE u \in user : TRUE IN
              Return(APIKeyVerificationResponse(TRUE, Some(u.id), Some(u.role)))
         ELSE Return(APIKeyVerificationResponse(FALSE, None, None))

\* api_key_verification, given the outcome of its awaited lookup
api_key_verification(lookup) ==
    IF lookup.kind = "raise" THEN lookup
    ELSE LET user == lookup.value IN
         IF user # None
         THEN LET u == CHOOSE u \in user : TRUE IN
              Return(APIKeyVerificationResponse(TRUE, Some(u.id), Some(u.role)))
         ELSE Return(APIKeyVerificationResponse(FALSE, None, None))

----------------------------------------------------------------------------
(* The Enum classes *)

\* class ContentType / CorrectionLevel / Format (Enum) of
\* project.generate_qr_code_service: the parameter types of generate_qr_code
ContentType == [cls : {"project.ContentType"}, name : {"URL", "TEXT", "CONTACT"}]
CorrectionLevel == [cls : {"project.CorrectionLevel"}, name : {"L", "M", "Q", "H"}]
Format == [cls : {"project.Format"}, name : {"PNG", "SVG"}]

\* prisma.enums.ContentType / CorrectionLevel / Format: the parameter types
\* of the route handler api_post_generate_qr_code
prisma_ContentType == [cls : {"prisma.enums.ContentType"}, name : {"URL", "TEXT", "CONTACT"}]
prisma_CorrectionLevel == [cls : {"prisma.enums.CorrectionLevel"}, name : {"L", "M", "Q", "H"}]
prisma_Format == [cls : {"prisma.enums.Format"}, name : {"PNG", "SVG"}]

Member(enum, name) == CHOOSE m \in enum : m.name = name

----------------------------------------------------------------------------
(* The qrcode library, as generate_qr_code uses it *)

\* qrcode.constants
ERROR_CORRECT_L == 1
ERROR_CORRECT_M == 0
ERROR_CORRECT_Q == 3
ERROR_CORRECT_H == 2

\* the dict built at the top of generate_qr_code, keyed by the members of the
\* module's own CorrectionLevel
error_correction_mapping ==
    [k \in CorrectionLevel |->
        CASE k.name = "L" -> ERROR_CORRECT_L
          [] k.name = "M" -> ERROR_CORRECT_M
          [] k.name = "Q" -> ERROR_CORRECT_Q
          [] k.name = "H" -> ERROR_CORRECT_H]

\* d[key]: KeyError when no key of the dict equals key (the message, the
\* repr of the key, is shortened to the member's name)
getitem(d, key) ==
    IF key \in DOMAIN d THEN Return(d[key])
    ELSE Raise("KeyError", key.name)

\* the content strings of the model and their length in bytes; all of them
\* are encoded in byte mode as one chunk
Contents ==
    {"", "https://example.com", "a*7", "a*8", "a*17", "a*18", "a*1274", "a*2954"}

byte_len(content) ==
    CASE content = "" -> 0
      [] content = "https://example.com" -> 19
      [] content = "a*7" -> 7
      [] content = "a*8" -> 8
      [] content = "a*17" -> 17
      [] content = "a*18" -> 18
      [] content = "a*1274" -> 1274
      [] content = "a*2954" -> 2954

\* the colour strings of the model; PIL_colors are those ImageColor accepts
Colors == {"#00008B", "notacolor"}
PIL_colors == {"#00008B"}

\* the pixel sizes of the model
Sizes == {-41, -1, 0, 39, 40, 79, 300}

\* one call of a collaborator: the function, its arguments and its outcome
Call(fn, args, result) == [fn |-> fn, args |-> args, result |-> result]

\* qrcode.QRCode(version, error_correction, box_size, border):
\* _check_box_size raises ValueError unless box_size > 0
QRCode(version, error_correction, box_size, border) ==
    IF box_size <= 0
    THEN Raise("ValueError", "Invalid box size")
    ELSE Return([version |-> version, error_correction |-> error_correction,
                 box_size |-> box_size, border |-> border, data_list |-> <<>>])

\* qr.add_data(content): the chunks of the content are appended to the data
\* list; the empty string has no chunk
add_data(qr, content) ==
    IF content = "" THEN qr ELSE [qr EXCEPT !.data_list = Append(@, content)]

\* data codewords of the smallest symbol, version 1, per error correction
DataCodewords1(error_correction) ==
    CASE error_correction = ERROR_CORRECT_L -> 19
      [] error_correction = ERROR_CORRECT_M -> 16
      [] error_correction = ERROR_CORRECT_Q -> 13
      [] error_correction = ERROR_CORRECT_H -> 9

\* data codewords of the largest symbol, version 40, per error correction
DataCodewords40(error_correction) ==
    CASE error_correction = ERROR_CORRECT_L -> 2956
      [] error_correction = ERROR_CORRECT_M -> 2334
      [] error_correction = ERROR_CORRECT_Q -> 1666
      [] error_correction = ERROR_CORRECT_H -> 1276

RECURSIVE needed_bits(_, _)
\* bits of the data list in byte mode: 4 mode bits, the character count
\* (8 bits up to version 9, 16 bits from version 10), 8 bits per byte
needed_bits(data_list, count_bits) ==
    IF data_list = <<>> THEN 0
    ELSE 4 + count_bits + 8 * byte_len(Head(data_list))
           + needed_bits(Tail(data_list), count_bits)

\* make that keeps the version it was constructed with
make_without_fit(qr, fit) ==
    IF needed_bits(qr.data_list, 8) > 8 * DataCodewords1(qr.error_correction)
    THEN Raise("DataOverflowError", "")
    ELSE Return([qr EXCEPT !.version = {1}])

\* make whose best_fit keeps the 8-bit character count of the small versions
\* when it moves to version 10 and above
make_short_count(qr, fit) ==
    IF needed_bits(qr.data_list, 8) <= 8 * DataCodewords1(qr.error_correction)
    THEN Return([qr EXCEPT !.version = {1}])
    ELSE IF fit /\ needed_bits(qr.data_list, 8) <= 8 * DataCodewords40(qr.error_correction)
    THEN Return([qr EXCEPT !.version = 2..40])
    ELSE Raise("DataOverflowError", "")

\* qr.make(fit=True): best_fit moves from the version given to the
\* constructor to the smallest version that holds the data and raises
\* DataOverflowError when version 40 does not hold it. The version of the
\* result is the set of versions best_fit may have chosen: version 1 when
\* the data fits it, otherwise one of 2..40.
make(qr, fit) ==
    IF needed_bits(qr.data_list, 8) <= 8 * DataCodewords1(qr.error_correction)
    THEN Return([qr EXCEPT !.version = {1}])
    ELSE IF fit /\ needed_bits(qr.data_list, 16) <= 8 * DataCodewords40(qr.error_correction)
    THEN Return([qr EXCEPT !.version = 2..40])
    ELSE Raise("DataOverflowError", "")

\* qr.make_image(fill_color, back_color) with the default image factory
\* (PilImage): drawing with a colour PIL does not know raises ValueError
make_image(qr, fill_color, back_color) ==
    IF fill_color \notin PIL_colors
    THEN Raise("ValueError", "unknown color specifier")
    ELSE Return([factory |-> "PilImage", fill_color |-> fill_color,
                 back_color |-> back_color, box_size |-> qr.box_size,
                 border |-> qr.border])

\* img.save(img_io, format=img_format) of a PilImage: PIL writes PNG and has
\* no SVG writer (SVG output needs one of the qrcode.image.svg factories)
save(img, img_format) ==
    IF img_format = <<"P", "N", "G">>
    THEN Return(img_format)
    ELSE Raise("KeyError", "SVG")

\* str(uuid.uuid4()): hex digits, shortened to two characters
Hex == <<"0", "1", "2", "3", "4", "5", "6", "7", "8", "9", "a", "b", "c", "d", "e", "f">>
uuid_str(i) == <<Hex[((i \div 16) % 16) + 1], Hex[(i % 16) + 1]>>
UUIDs == {uuid_str(i) : i \in 1..NumUUIDs}

path_prefix == <<"/", "p", "a", "t", "h", "/", "t", "o", "/", "q", "r", "/">>

GenerateQRCodeResponse(success, message, qrCodeId, qrCodeURL) ==
    [pytype |-> "GenerateQRCodeResponse", success |-> success, message |-> message,
     qrCodeId |-> qrCodeId, qrCodeURL |-> qrCodeURL]

\* a run of (a part of) generate_qr_code: the collaborator calls it made, in
\* order, and its outcome
Run(calls, outcome) == [calls |-> calls, outcome |-> outcome]

\* render_and_respond with the extension not lower-cased
render_and_respond_upper(qr, color, format, uuid4) ==
    LET img == make_image(qr, color, "white")
        c1 == <<Call("make_image", [fill_color |-> color, back_color |-> "white"], img)>>
    IN
    IF img.kind = "raise" THEN Run(c1, img) ELSE
    LET img_format == IF format = Member(Format, "PNG")
                      THEN <<"P", "N", "G">> ELSE <<"S", "V", "G">>
        saved == save(img.value, img_format)
        c2 == Append(c1, Call("save", [format |-> img_format], saved))
    IN
    IF saved.kind = "raise" THEN Run(c2, saved) ELSE
    LET qr_code_id == uuid4
        c3 == Append(c2, Call("uuid4", [n |-> 0], Return(uuid4)))
        qr_code_url == path_prefix \o qr_code_id \o <<".">> \o img_format
    IN Run(c3, Return(GenerateQRCodeResponse(TRUE, "QR Code generated successfully.",
                                             qr_code_id, qr_code_url)))

\* render_and_respond reporting a failed save in the result
render_and_respond_soft(qr, color, format, uuid4) ==
    LET img == make_image(qr, color, "white")
        c1 == <<Call("make_image", [fill_color |-> color, back_color |-> "white"], img)>>
    IN
    IF img.kind = "raise" THEN Run(c1, img) ELSE
    LET img_format == IF format = Member(Format, "PNG")
                      THEN <<"P", "N", "G">> ELSE <<"S", "V", "G">>
        saved == save(img.value, img_format)
        c2 == Append(c1, Call("save", [format |-> img_format], saved))
        qr_code_id == uuid4
        c3 == Append(c2, Call("uuid4", [n |-> 0], Return(uuid4)))
        qr_code_url == path_prefix \o qr_code_id \o <<".">> \o lower(img_format)
    IN
    IF saved.kind = "raise"
    THEN Run(c3, Return(GenerateQRCodeResponse(FALSE, "QR Code generation failed.",
                                               qr_code_id, qr_code_url)))
    ELSE Run(c3, Return(GenerateQRCodeResponse(TRUE, "QR Code generated successfully.",
                                               qr_code_id, qr_code_url)))

\* render_and_respond minting the identifier before the image is rendered
render_and_respond_eager(qr, color, format, uuid4) ==
    LET c0 == <<Call("uuid4", [n |-> 0], Return(uuid4))>>
        img == make_image(qr, color, "white")
        c1 == Append(c0, Call("make_image", [fill_color |-> color, back_color |-> "white"], img))
    IN
    IF img.kind = "raise" THEN Run(c1, img) ELSE
    LET img_format == IF format = Member(Format, "PNG")
                      THEN <<"P", "N", "G">> ELSE <<"S", "V", "G">>
        saved == save(img.value, img_format)
        c2 == Append(c1, Call("save", [format |-> img_format], saved))
    IN
    IF saved.kind = "raise" THEN Run(c2, saved) ELSE
    LET qr_code_id == uuid4
        qr_code_url == path_prefix \o qr_code_id \o <<".">> \o lower(img_format)
    IN Run(c2, Return(GenerateQRCodeResponse(TRUE, "QR Code generated successfully.",
                                             qr_code_id, qr_code_url)))

\* lines 1356-1368: render, serialize, mint the identifier, build the result
render_and_respond(qr, color, format, uuid4) ==
    LET img == make_image(qr, color, "white")
        c1 == <<Call("make_image", [fill_color |-> color, back_color |-> "white"], img)>>
    IN
    IF img.kind = "raise" THEN Run(c1, img) ELSE
    LET img_format == IF format = Member(Format, "PNG")
                      THEN <<"P", "N", "G">> ELSE <<"S", "V", "G">>
        saved == save(img.value, img_format)
        c2 == Append(c1, Call("save", [format |-> img_format], saved))
    IN
    IF saved.kind = "raise" THEN Run(c2, saved) ELSE
    LET qr_code_id == uuid4
        c3 == Append(c2, Call("uuid4", [n |-> 0], Return(uuid4)))
        qr_code_url == path_prefix \o qr_code_id \o <<".">> \o lower(img_format)
    IN Run(c3, Return(GenerateQRCodeResponse(TRUE, "QR Code generated successfully.",
                                             qr_code_id, qr_code_url)))

\* construct with a division that truncates towards zero
construct_truncating(size, correctionLevel) ==
    LET error_correction == getitem(error_correction_mapping, correctionLevel)
        c1 == <<Call("error_correction_mapping", [key |-> correctionLevel],
                     error_correction)>>
        box_size == IF size >= 0 THEN size \div 40 ELSE -((-size) \div 40)
    IN
    IF error_correction.kind = "raise" THEN Run(c1, error_correction) ELSE
    LET qr == QRCode(1, error_correction.value, box_size, 4) IN
    Run(Append(c1, Call("QRCode", [version |-> 1,
                                   error_correction |-> error_correction.value,
                                   box_size |-> box_size, border |-> 4], qr)),
        qr)

\* lines 60-65 and 707-712: look the level up and construct the encoder
construct(size, correctionLevel) ==
    LET error_correction == getitem(error_correction_mapping, correctionLevel)
        c1 == <<Call("error_correction_mapping", [key |-> correctionLevel],
                     error_correction)>>
    IN
    IF error_correction.kind = "raise" THEN Run(c1, error_correction) ELSE
    LET qr == QRCode(1, error_correction.value, size \div 40, 4) IN
    Run(Append(c1, Call("QRCode", [version |-> 1,
                                   error_correction |-> error_correction.value,
                                   box_size |-> size \div 40, border |-> 4], qr)),
        qr)

\* encode wrapping the content of a CONTACT request in a vCard, which makes
\* it longer: the longest content of the model stands for the wrapped one
encode_wrapping(qr, contentType, content) ==
    LET data == IF contentType.name = "CONTACT" THEN "a*2954" ELSE content
        made == make(add_data(qr, data), TRUE)
    IN
    Run(<<Call("add_data", [data |-> data], Return(None)),
          Call("make", [fit |-> TRUE], made)>>,
        made)

\* lines 1354-1355: feed the content and build the symbol
encode(qr, contentType, content) ==
    LET made == make(add_data(qr, content), TRUE) IN
    Run(<<Call("add_data", [data |-> content], Return(None)),
          Call("make", [fit |-> TRUE], made)>>,
        made)

\* the body of generate_qr_code; uuid4 is the value uuid.uuid4() produces
\* if it is reached
generate_qr_code_run(contentType, content, size, color, correctionLevel, format, uuid4) ==
    LET constructed == construct(size, correctionLevel) IN
    IF constructed.outcome.kind = "raise" THEN constructed ELSE
    LET encoded == encode(constructed.outcome.value, contentType, content) IN
    IF encoded.outcome.kind = "raise"
    THEN Run(constructed.calls \o encoded.calls, encoded.outcome) ELSE
    LET rendered == render_and_respond(encoded.outcome.value, color, format, uuid4) IN
    Run(constructed.calls \o encoded.calls \o rendered.calls, rendered.outcome)

\* generate_qr_code: what the caller sees
generate_qr_code(contentType, content, size, color, correctionLevel, format, uuid4) ==
    generate_qr_code_run(contentType, content, size, color,
                         correctionLevel, format, uuid4).outcome

----------------------------------------------------------------------------
(* The HTTP facade *)

\* api_key_verification looking the key up again after a failed lookup
api_key_verification_retrying(table, api_key, isConnected, fault) ==
    LET first == find_unique(table, api_key, isConnected, fault)
        c1 == <<Call("find_unique", [where |-> api_key], first)>>
    IN
    IF first.kind = "return" THEN Run(c1, api_key_verification(first)) ELSE
    LET second == find_unique(table, api_key, isConnected, FALSE) IN
    Run(Append(c1, Call("find_unique", [where |-> api_key], second)),
        api_key_verification(second))

\* a run of api_key_verification: the lookup it awaits, line 30, and its
\* outcome
api_key_verification_run(table, api_key, isConnected, fault) ==
    LET lookup == find_unique(table, api_key, isConnected, fault) IN
    Run(<<Call("find_unique", [where |-> api_key], lookup)>>,
        api_key_verification(lookup))

\* fastapi.encoders.jsonable_encoder on a dict of strings: the same dict
jsonable_encoder(obj) == obj

\* fastapi.responses.Response(content, status_code, media_type): the
\* constructor renders the body, passing bytes through and calling
\* content.encode(charset) on anything else, which only a str has
Response(content, status_code, media_type) ==
    IF content.pytype \in {"bytes", "str"}
    THEN Return([pytype |-> "Response", status_code |-> status_code,
                 media_type |-> media_type, body |-> content])
    ELSE Raise("AttributeError", "'dict' object has no attribute 'encode'")

\* the except branch shared by the two handlers
except_Exception(e) ==
    LET res == [pytype |-> "dict", error |-> str(e)] IN
    Response(jsonable_encoder(res), 500, "application/json")

\* api_post_api_key_verification treating a negative result as a failure
api_post_api_key_verification_rejecting(lookup) ==
    LET res == api_key_verification(lookup) IN
    IF res.kind = "raise" THEN except_Exception(res.exc)
    ELSE IF res.value.is_valid THEN res
    ELSE except_Exception([type |-> "ValueError", msg |-> "Invalid API key"])

\* api_post_api_key_verification refusing to answer while requests for
\* another key are in flight
api_post_api_key_verification_busy(lookup) ==
    LET res == api_key_verification(lookup) IN
    IF Cardinality({k \in ApiKeys : pending[k] > 0}) > 1
    THEN Return([pytype |-> "Response", status_code |-> 503,
                 media_type |-> "text/plain",
                 body |-> [pytype |-> "str", text |-> "Service Unavailable"]])
    ELSE IF res.kind = "return" THEN res ELSE except_Exception(res.exc)

\* api_post_api_key_verification, given the outcome of the awaited lookup
api_post_api_key_verification(lookup) ==
    LET res == api_key_verification(lookup) IN
    IF res.kind = "return" THEN res ELSE except_Exception(res.exc)

\* api_post_generate_qr_code
api_post_generate_qr_code(contentType, content, size, color, correctionLevel, format, uuid4) ==
    LET res == generate_qr_code(contentType, content, size, color,
                                correctionLevel, format, uuid4) IN
    IF res.kind = "return" THEN res ELSE except_Exception(res.exc)

\* what the client receives for a handler outcome: a returned Response as it
\* is, a returned model serialized by response_model with status 200, and for
\* an exception leaving the handler the framework's plain 500
send(handled) ==
    IF handled.kind = "raise"
    THEN [status_code |-> 500, media_type |-> "text/plain",
          body |-> [pytype |-> "str", text |-> "Internal Server Error"]]
    ELSE IF handled.value.pytype = "Response"
    THEN [status_code |-> handled.value.status_code,
          media_type |-> handled.value.media_type,
          body |-> handled.value.body]
    ELSE [status_code |-> 200, media_type |-> "application/json",
          body |-> handled.value]

----------------------------------------------------------------------------
(* The state machine *)

InFlight == LET RECURSIVE sum(_)
                sum(S) == IF S = {} THEN 0
                          ELSE LET k == CHOOSE k \in S : TRUE
                               IN pending[k] + sum(S \ {k})
            IN sum(ApiKeys)

Init ==
    /\ phase = "starting"
    /\ connected = FALSE
    /\ store \in Stores
    /\ pending = [k \in ApiKeys |-> 0]
    /\ last = [route |-> "none"]
    /\ verified = [k \in ApiKeys |-> {}]

\* lifespan, before the yield: the server starts serving once connected
Startup ==
    /\ phase = "starting"
    /\ phase' = "serving"
    /\ connected' = TRUE
    /\ UNCHANGED <<store, pending, last, verified>>

\* lifespan disconnecting while requests are still being handled
Shutdown_abrupt ==
    /\ phase = "serving"
    /\ phase' = "stopped"
    /\ connected' = FALSE
    /\ UNCHANGED <<store, pending, last, verified>>

\* lifespan, after the yield: the server has stopped serving
Shutdown ==
    /\ phase = "serving"
    /\ InFlight = 0
    /\ phase' = "stopped"
    /\ connected' = FALSE
    /\ UNCHANGED <<store, pending, last, verified>>

\* POST /auth/verify arrives: the handler runs up to await find_unique
VerifyEnter(api_key) ==
    /\ phase = "serving"
    /\ InFlight < MaxInFlight
    /\ pending' = [pending EXCEPT ![api_key] = @ + 1]
    /\ UNCHANGED <<phase, connected, store, last, verified>>

\* VerifyResume with single-use keys: a key that was found is deleted
VerifyResume_consuming(api_key, fault) ==
    /\ last.route = "none"
    /\ pending[api_key] > 0
    /\ pending' = [pending EXCEPT ![api_key] = @ - 1]
    /\ LET lookup == find_unique(store, api_key, connected, fault)
           handled == api_post_api_key_verification(lookup)
       IN /\ last' = [route |-> "/auth/verify",
                      args |-> [api_key |-> api_key],
                      lookup |-> lookup,
                      calls |-> api_key_verification_run(store, api_key, connected, fault).calls,
                      outcome |-> api_key_verification_run(store, api_key, connected, fault).outcome,
                      handled |-> handled,
                      response |-> Some(send(handled))]
          /\ store' = IF lookup.kind = "return" THEN store \ lookup.value ELSE store
    /\ UNCHANGED <<phase, connected, verified>>

\* the lookup completes (or faults) and the handler runs to its end
VerifyResume(api_key, fault) ==
    /\ last.route = "none"
    /\ pending[api_key] > 0
    /\ pending' = [pending EXCEPT ![api_key] = @ - 1]
    /\ LET lookup == find_unique(store, api_key, connected, fault)
           handled == api_post_api_key_verification(lookup)
       IN last' = [route |-> "/auth/verify",
                   args |-> [api_key |-> api_key],
                   lookup |-> lookup,
                   calls |-> api_key_verification_run(store, api_key, connected, fault).calls,
                   outcome |-> api_key_verification_run(store, api_key, connected, fault).outcome,
                   handled |-> handled,
                   response |-> Some(send(handled))]
    /\ UNCHANGED <<phase, connected, store, verified>>

\* POST /qr/generate: the handler has no suspension point
GenerateRequest(contentType, content, size, color, correctionLevel, format, uuid4) ==
    /\ phase = "serving"
    /\ last.route = "none"
    /\ LET handled == api_post_generate_qr_code(contentType, content, size, color,
                                                correctionLevel, format, uuid4)
       IN last' = [route |-> "/qr/generate",
                   args |-> [contentType |-> contentType, content |-> content,
                             size |-> size, color |-> color,
                             correctionLevel |-> correctionLevel, format |-> format],
                   calls |-> generate_qr_code_run(contentType, content, size, color,
                                                  correctionLevel, format, uuid4).calls,
                   outcome |-> generate_qr_code(contentType, content, size, color,
                                                correctionLevel, format, uuid4),
                   handled |-> handled,
                   response |-> Some(send(handled))]
    /\ UNCHANGED <<phase, connected, store, pending, verified>>

\* generate_qr_code called with arguments of its declared parameter types
GenerateCall(contentType, content, size, color, correctionLevel, format, uuid4) ==
    /\ last.route = "none"
    /\ last' = [route |-> "generate_qr_code",
                args |-> [contentType |-> contentType, content |-> content,
                          size |-> size, color |-> color,
                          correctionLevel |-> correctionLevel, format |-> format],
                calls |-> generate_qr_code_run(contentType, content, size, color,
                                               correctionLevel, format, uuid4).calls,
                outcome |-> generate_qr_code(contentType, content, size, color,
                                             correctionLevel, format, uuid4),
                response |-> None]
    /\ UNCHANGED <<phase, connected, store, pending, verified>>

\* the response has been sent (the caller has taken the result)
Complete ==
    /\ last.route # "none"
    /\ last' = [route |-> "none"]
    /\ verified' = IF last.route = "/auth/verify" /\ last.outcome.kind = "return"
                   THEN [verified EXCEPT ![last.args.api_key] = @ \cup {last.outcome.value}]
                   ELSE verified
    /\ UNCHANGED <<phase, connected, store, pending>>

\* the generate requests of the whole system: one content, one colour,
\* a failing and a working size
SystemSizes == {39, 300}
SystemContents == {"https://example.com"}

Next ==
    \/ Startup
    \/ Shutdown
    \/ Complete
    \/ \E api_key \in ApiKeys : VerifyEnter(api_key)
    \/ \E api_key \in ApiKeys, fault \in BOOLEAN : VerifyResume(api_key, fault)
    \/ /\ last.route = "none"
       /\ \E contentType \in prisma_ContentType, content \in SystemContents,
             size \in SystemSizes, color \in PIL_colors,
             correctionLevel \in prisma_CorrectionLevel,
             format \in prisma_Format, uuid4 \in UUIDs :
               GenerateRequest(contentType, content, size, color, correctionLevel, format, uuid4)
    \/ /\ last.route = "none"
       /\ \E contentType \in ContentType, content \in SystemContents,
             size \in SystemSizes, color \in PIL_colors,
             correctionLevel \in CorrectionLevel,
             format \in Format, uuid4 \in UUIDs :
               GenerateCall(contentType, content, size, color, correctionLevel, format, uuid4)

\* the two routes, the lifespan and direct calls, with requests in flight
Spec == Init /\ [][Next]_vars

\* generation alone, over every content, size, colour, level and format of
\* the model
InitGenerate == Init /\ store = {}

NextGenerate ==
    \/ Startup
    \/ Complete
    \/ /\ last.route = "none"
       /\ \E contentType \in prisma_ContentType, content \in Contents, size \in Sizes,
             color \in Colors, correctionLevel \in prisma_CorrectionLevel,
             format \in prisma_Format, uuid4 \in UUIDs :
               GenerateRequest(contentType, content, size, color, correctionLevel, format, uuid4)
    \/ /\ last.route = "none"
       /\ \E contentType \in ContentType, content \in Contents, size \in Sizes,
             color \in Colors, correctionLevel \in CorrectionLevel,
             format \in Format, uuid4 \in UUIDs :
               GenerateCall(contentType, content, size, color, correctionLevel, format, uuid4)

SpecGenerate == InitGenerate /\ [][NextGenerate]_vars

----------------------------------------------------------------------------
(* Properties *)

VerifyDone == last.route = "/auth/verify"
RouteGenerateDone == last.route = "/qr/generate"
GenerateDone == last.route \in {"/qr/generate", "generate_qr_code"}

\* the rows of the store whose key is exactly the presented key
Matching(api_key) == {u \in store : u.apiKey = api_key}

\* the error envelope {error: message} with status 500
IsEnvelope(response, e) ==
    /\ response.status_code = 500
    /\ response.body.pytype = "dict"
    /\ response.body.error = str(e)

\* the six parameters are ones the encoder and the renderer accept
ValidArgs(args) ==
    /\ args.size >= 40
    /\ args.color \in PIL_colors
    /\ 4 + 16 + 8 * byte_len(args.content)
          <= 8 * DataCodewords40(error_correction_mapping[
                    Member(CorrectionLevel, args.correctionLevel.name)])

\* the characters of an enumeration name
name_chars(name) ==
    CASE name = "PNG" -> <<"P", "N", "G">>
      [] name = "SVG" -> <<"S", "V", "G">>

\* C1: whenever api_key_verification completes a lookup, it returns
\* is_valid=true with the identity and role of the stored row if a row with
\* the presented key exists, and is_valid=false with user_id and role absent
\* if no such row exists.
C1_VerifyReportsStore ==
    (VerifyDone /\ last.lookup.kind = "return") =>
        /\ last.outcome.kind = "return"
        /\ \A u \in Matching(last.args.api_key) :
              /\ last.outcome.value.is_valid = TRUE
              /\ last.outcome.value.user_id = Some(u.id)
              /\ last.outcome.value.role = Some(u.role)
        /\ Matching(last.args.api_key) = {} =>
              /\ last.outcome.value.is_valid = FALSE
              /\ last.outcome.value.user_id = None
              /\ last.outcome.value.role = None

C1_Witness ==
    /\ VerifyDone
    /\ last.lookup.kind = "return"
    /\ Matching(last.args.api_key) # {}
    /\ last.outcome.kind = "return"
    /\ last.outcome.value.is_valid

\* C2: when the store lookup of a /auth/verify request raises, the handler
\* returns (nothing escapes it) and the client receives status 500 with the
\* body {error: message}.
C2_VerifyFaultEnvelope ==
    (VerifyDone /\ last.outcome.kind = "raise") =>
        /\ last.handled.kind = "return"
        /\ \A r \in last.response : IsEnvelope(r, last.outcome.exc)

\* C3: when generate_qr_code raises in a /qr/generate request, the handler
\* returns and the client receives status 500 with the body {error: message}.
C3_GenerateFaultEnvelope ==
    (RouteGenerateDone /\ last.outcome.kind = "raise") =>
        /\ last.handled.kind = "return"
        /\ \A r \in last.response : IsEnvelope(r, last.outcome.exc)

\* C4: a /qr/generate request with valid parameters and format PNG is
\* answered with status 200 and the result {success: true, message:
\* "QR Code generated successfully.", qrCodeId: id, qrCodeURL:
\* "/path/to/qr/<id>.png"}.
C4_ValidRequestSucceeds ==
    (RouteGenerateDone /\ ValidArgs(last.args) /\ last.args.format.name = "PNG") =>
        \A r \in last.response :
            /\ r.status_code = 200
            /\ r.body.pytype = "GenerateQRCodeResponse"
            /\ r.body.success = TRUE
            /\ r.body.message = "QR Code generated successfully."
            /\ r.body.qrCodeURL = path_prefix \o r.body.qrCodeId \o <<".", "p", "n", "g">>

\* C5: a generate_qr_code call with otherwise valid parameters returns a
\* location ending in ".png" for format PNG and in ".svg" for format SVG.
C5_LocationExtension ==
    (last.route = "generate_qr_code" /\ ValidArgs(last.args)) =>
        /\ last.outcome.kind = "return"
        /\ endswith(last.outcome.value.qrCodeURL,
                    <<".">> \o lower(name_chars(last.args.format.name)))

\* C6: a /qr/generate request with size < 40 is answered with the failure
\* envelope and never with a result that has success=true.
C6_SmallSizeFails ==
    (RouteGenerateDone /\ last.args.size < 40) =>
        /\ last.outcome.kind = "raise"
        /\ \A r \in last.response :
              /\ IsEnvelope(r, last.outcome.exc)
              /\ r.body.pytype # "GenerateQRCodeResponse"

\* C7: a /auth/verify request whose lookup finds no row with the presented
\* key is answered with status 200 and the body {is_valid: false,
\* user_id: null, role: null}, not with an error status or envelope.
C7_UnknownKeyIsNegative ==
    (VerifyDone /\ last.lookup.kind = "return" /\ Matching(last.args.api_key) = {}) =>
        last.response =
            Some([status_code |-> 200, media_type |-> "application/json",
                  body |-> [pytype |-> "APIKeyVerificationResponse",
                            is_valid |-> FALSE, user_id |-> None, role |-> None]])

C7_Witness ==
    /\ VerifyDone
    /\ last.lookup.kind = "return"
    /\ Matching(last.args.api_key) = {}
    /\ store # {}
    /\ \E r \in last.response : r.status_code = 200

\* C9: in every result generate_qr_code returns, the location is
\* "/path/to/qr/", then the qrCodeId of the same result, then a dot, then the
\* lower-cased name of the requested format.
C9_LocationEmbedsId ==
    (GenerateDone /\ last.outcome.kind = "return") =>
        last.outcome.value.qrCodeURL =
            path_prefix \o last.outcome.value.qrCodeId \o <<".">>
                \o lower(name_chars(last.args.format.name))

C9_Witness ==
    /\ GenerateDone
    /\ last.outcome.kind = "return"
    /\ last.outcome.value.qrCodeId \in UUIDs
    /\ Len(last.outcome.value.qrCodeURL) = Len(path_prefix) + 2 + 4

\* C10: every result generate_qr_code returns has success=true and the
\* message "QR Code generated successfully."; a failing call raises and
\* returns no result.
C10_ResultIsSuccess ==
    (GenerateDone /\ last.outcome.kind = "return") =>
        /\ last.outcome.value.success = TRUE
        /\ last.outcome.value.message = "QR Code generated successfully."

C10_Witness ==
    /\ GenerateDone
    /\ last.outcome.kind = "return"
    /\ last.outcome.value.success


\* C11: repeated /auth/verify calls with the same key return identical
\* results: a result returned now equals every result clients have received
\* for that key before, and no key has ever received two different results.
C11_VerifyIdempotent ==
    /\ \A k \in ApiKeys : Cardinality(verified[k]) <= 1
    /\ (VerifyDone /\ last.outcome.kind = "return") =>
          \A r \in verified[last.args.api_key] : r = last.outcome.value

C11_Witness ==
    /\ VerifyDone
    /\ last.outcome.kind = "return"
    /\ last.outcome.value.is_valid
    /\ verified[last.args.api_key] = {last.outcome.value}


\* a is a proper prefix of b
IsPrefix(a, b) ==
    /\ Len(key_chars(a)) < Len(key_chars(b))
    /\ SubSeq(key_chars(b), 1, Len(key_chars(a))) = key_chars(a)

\* a differs from b in the case of its letters only
IsCaseVariant(a, b) == a # b /\ key_lower(a) = key_lower(b)

\* the stored keys that the presented key is a prefix, an extension or a case
\* variant of
NearKeys(api_key) ==
    {u.apiKey : u \in {v \in store : \/ IsPrefix(api_key, v.apiKey)
                                     \/ IsPrefix(v.apiKey, api_key)
                                     \/ IsCaseVariant(api_key, v.apiKey)}}

\* C12: a presented key that equals no stored key is reported invalid, also
\* when it is a prefix, an extension or a case variant of a stored key; a
\* presented key that equals a stored key is reported valid whatever else is
\* in flight and however often it has been presented before.
C12_ExactKeyMatch ==
    (VerifyDone /\ last.lookup.kind = "return") =>
        /\ last.outcome.kind = "return"
        /\ last.outcome.value.is_valid
              = (\E u \in store : key_chars(u.apiKey) = key_chars(last.args.api_key))
        /\ (NearKeys(last.args.api_key) # {} /\ last.args.api_key \notin NearKeys(last.args.api_key)
              /\ Matching(last.args.api_key) = {})
              => last.outcome.value = APIKeyVerificationResponse(FALSE, None, None)

C12_Witness ==
    /\ VerifyDone
    /\ last.lookup.kind = "return"
    /\ \E u \in store : IsCaseVariant(last.args.api_key, u.apiKey)
    /\ last.outcome.kind = "return"
    /\ ~last.outcome.value.is_valid


\* the content types a caller of the same kind could have passed instead
SiblingTypes(contentType) ==
    IF contentType \in ContentType THEN ContentType ELSE prisma_ContentType

\* the calls of a run that went to the collaborator fn
CallsTo(calls, fn) == {i \in 1..Len(calls) : calls[i].fn = fn}

\* C13: generation does not depend on contentType: the raw content string is
\* what is fed to the encoder, and the same call with any other content type
\* makes the same collaborator calls and has the same outcome (for the same
\* minted identifier).
C13_ContentTypeIgnored ==
    GenerateDone =>
        /\ \A i \in CallsTo(last.calls, "add_data") :
              last.calls[i].args.data = last.args.content
        /\ \A ct \in SiblingTypes(last.args.contentType), uuid4 \in UUIDs :
              generate_qr_code_run(ct, last.args.content, last.args.size,
                                   last.args.color, last.args.correctionLevel,
                                   last.args.format, uuid4)
                = generate_qr_code_run(last.args.contentType, last.args.content,
                                       last.args.size, last.args.color,
                                       last.args.correctionLevel, last.args.format, uuid4)
        /\ \E uuid4 \in UUIDs :
              generate_qr_code_run(last.args.contentType, last.args.content,
                                   last.args.size, last.args.color,
                                   last.args.correctionLevel, last.args.format, uuid4)
                = Run(last.calls, last.outcome)

C13_Witness ==
    /\ last.route = "generate_qr_code"
    /\ last.args.contentType = Member(ContentType, "CONTACT")
    /\ last.args.content = "https://example.com"
    /\ CallsTo(last.calls, "add_data") # {}
    /\ last.outcome.kind = "return"


\* bytes a version-1 symbol holds in byte mode: the data codewords less the
\* 12 bits of mode and character count
ByteCapacity1(level) ==
    DataCodewords1(error_correction_mapping[Member(CorrectionLevel, level)]) - 2

\* the content is at most one byte off the version-1 capacity at L or at H
NearVersion1Boundary(content) ==
    \E level \in {"L", "H"}, d \in {-1, 0, 1} :
        byte_len(content) = ByteCapacity1(level) + d

\* the level of the given name in the enumeration that level belongs to
SiblingLevel(level, name) ==
    IF level \in CorrectionLevel THEN Member(CorrectionLevel, name)
    ELSE Member(prisma_CorrectionLevel, name)

\* C14: for content lengths near the version-1 capacity boundary, whenever a
\* request with level L succeeds, the request that differs from it in the
\* level only, being H, succeeds as well.
C14_HighNotRejectedWhereLowSucceeds ==
    (/\ GenerateDone
     /\ NearVersion1Boundary(last.args.content)
     /\ last.args.correctionLevel.name = "L"
     /\ last.outcome.kind = "return")
       => \A uuid4 \in UUIDs :
             generate_qr_code(last.args.contentType, last.args.content, last.args.size,
                              last.args.color, SiblingLevel(last.args.correctionLevel, "H"),
                              last.args.format, uuid4).kind = "return"

C14_Witness ==
    /\ GenerateDone
    /\ last.args.correctionLevel.name = "L"
    /\ last.outcome.kind = "return"
    /\ byte_len(last.args.content) = ByteCapacity1("H") + 1
    /\ byte_len(last.args.content) <= ByteCapacity1("L")


\* C15: no step of the system, whether a verify-key or a generate-qr request,
\* successful or failing, changes the credential store: the stored keys with
\* their identities and roles stay what they were.
C15_StoreUnchanged == [][store' = store]_vars

C15_Witness ==
    /\ store # {}
    /\ RouteGenerateDone
    /\ \E k \in ApiKeys : \E r \in verified[k] : r.is_valid
    /\ \E k \in ApiKeys : \E r \in verified[k] : ~r.is_valid


\* the redundancy constant of the encoder that has the name of the level
ConstantNamed(name) ==
    CASE name = "L" -> ERROR_CORRECT_L
      [] name = "M" -> ERROR_CORRECT_M
      [] name = "Q" -> ERROR_CORRECT_Q
      [] name = "H" -> ERROR_CORRECT_H

\* C16: for every level L, M, Q, H a generate request carries, through the
\* route as well as in a direct call, the mapping lookup returns the
\* redundancy constant of the same name and never raises a missing-key error.
C16_LevelLookupSucceeds ==
    GenerateDone =>
        /\ CallsTo(last.calls, "error_correction_mapping") # {}
        /\ \A i \in CallsTo(last.calls, "error_correction_mapping") :
              /\ last.calls[i].args.key = last.args.correctionLevel
              /\ last.calls[i].result
                   = Return(ConstantNamed(last.args.correctionLevel.name))


\* C17: for every integer size, zero, negative and not divisible by 40
\* included, the encoder is constructed with box_size = floor(size / 40),
\* the integer b with 40 * b <= size < 40 * b + 40, and with border = 4; a
\* call of generate_qr_code with its own enumerations always constructs it.
C17_BoxScaleAndBorder ==
    GenerateDone =>
        /\ \A i \in CallsTo(last.calls, "QRCode") :
              /\ 40 * last.calls[i].args.box_size <= last.args.size
              /\ last.args.size < 40 * last.calls[i].args.box_size + 40
              /\ last.calls[i].args.border = 4
        /\ last.route = "generate_qr_code" => CallsTo(last.calls, "QRCode") # {}

C17_Witness ==
    /\ last.route = "generate_qr_code"
    /\ last.args.size < 0
    /\ last.args.size % 40 # 0
    /\ \E i \in CallsTo(last.calls, "QRCode") : last.calls[i].args.box_size < 0


\* C18: generation is all-or-nothing: a collaborator that raises ends the
\* call with its exception, with no identifier minted and no result
\* returned; an identifier is minted only after make_image and save have
\* returned, and the result returned carries that identifier.
C18_AllOrNothing ==
    GenerateDone =>
        /\ \A i \in 1..Len(last.calls) :
              last.calls[i].result.kind = "raise" =>
                  /\ i = Len(last.calls)
                  /\ last.outcome = last.calls[i].result
                  /\ CallsTo(last.calls, "uuid4") = {}
        /\ last.outcome.kind = "raise" => CallsTo(last.calls, "uuid4") = {}
        /\ \A i \in CallsTo(last.calls, "uuid4") :
              \E j, k \in 1..(i - 1) :
                  /\ j < k
                  /\ last.calls[j].fn = "make_image" /\ last.calls[j].result.kind = "return"
                  /\ last.calls[k].fn = "save" /\ last.calls[k].result.kind = "return"
        /\ last.outcome.kind = "return" =>
              \E i \in CallsTo(last.calls, "uuid4") :
                  last.calls[i].result = Return(last.outcome.value.qrCodeId)

C18_Witness ==
    /\ last.route = "generate_qr_code"
    /\ last.outcome.kind = "raise"
    /\ \E j \in CallsTo(last.calls, "make_image") : last.calls[j].result.kind = "return"
    /\ \E k \in CallsTo(last.calls, "save") : last.calls[k].result.kind = "raise"


\* bytes a version-40 symbol holds in byte mode: the data codewords less the
\* 20 bits of mode and character count, in whole bytes
ByteCapacity40(level) ==
    DataCodewords40(error_correction_mapping[Member(CorrectionLevel, level)]) - 3

\* C19: the symbol version is fitted to the content: when the encoder is
\* asked to build the symbol, content that does not fit version 1 at the
\* requested level but fits version 40 is encoded at a version above 1, and
\* the build fails (with DataOverflowError) exactly when the content exceeds
\* the capacity of version 40 at that level.
C19_VersionAutoFit ==
    GenerateDone =>
        \A i \in CallsTo(last.calls, "make") :
            LET n == byte_len(last.args.content)
                level == last.args.correctionLevel.name
                made == last.calls[i].result
            IN /\ last.calls[i].args.fit
               /\ n <= ByteCapacity1(level) =>
                     made.kind = "return" /\ made.value.version = {1}
               /\ (n > ByteCapacity1(level) /\ n <= ByteCapacity40(level)) =>
                     /\ made.kind = "return"
                     /\ made.value.version # {}
                     /\ \A v \in made.value.version : v > 1 /\ v <= 40
               /\ (made.kind = "raise") = (n > ByteCapacity40(level))
               /\ made.kind = "raise" => made.exc.type = "DataOverflowError"

C19_Witness ==
    /\ last.route = "generate_qr_code"
    /\ byte_len(last.args.content) = ByteCapacity1(last.args.correctionLevel.name) + 1
    /\ \E i \in CallsTo(last.calls, "make") : last.calls[i].result.kind = "return"
    /\ last.outcome.kind = "return"


\* the response to POST /auth/verify when it is the only request: decided by
\* the store and by the outcome of its own lookup
AloneVerifyResponse(api_key, lookup) ==
    IF lookup.kind = "raise" THEN send(except_Exception(lookup.exc))
    ELSE [status_code |-> 200, media_type |-> "application/json",
          body |-> IF Matching(api_key) = {}
                   THEN APIKeyVerificationResponse(FALSE, None, None)
                   ELSE LET u == CHOOSE u \in Matching(api_key) : TRUE
                        IN APIKeyVerificationResponse(TRUE, Some(u.id), Some(u.role))]

\* the responses to POST /qr/generate when it is the only request, one for
\* each identifier that may be minted
AloneGenerateResponses(args) ==
    {send(api_post_generate_qr_code(args.contentType, args.content, args.size,
                                    args.color, args.correctionLevel, args.format, uuid4))
        : uuid4 \in UUIDs}

\* C20: requests are independent: a step that answers a request answers
\* exactly that one request with exactly one response, leaves the other
\* requests in flight and the store as they were, and the response is the
\* one the request gets when handled alone (up to the minted identifier),
\* whatever else is in flight or was handled before.
C20_RequestsIndependent ==
    [][(last.route = "none" /\ last'.route \in {"/auth/verify", "/qr/generate"}) =>
          /\ Cardinality(last'.response) = 1
          /\ store' = store
          /\ last'.route = "/auth/verify" =>
                /\ pending[last'.args.api_key] > 0
                /\ pending' = [pending EXCEPT ![last'.args.api_key] = @ - 1]
                /\ last'.response
                     = Some(AloneVerifyResponse(last'.args.api_key, last'.lookup))
          /\ last'.route = "/qr/generate" =>
                /\ pending' = pending
                /\ \E r \in AloneGenerateResponses(last'.args) : last'.response = Some(r)
      ]_vars

C20_Witness ==
    /\ VerifyDone
    /\ last.outcome.kind = "return"
    /\ last.outcome.value.is_valid
    /\ \E k \in ApiKeys \ {last.args.api_key} : pending[k] > 0
    /\ \E k \in ApiKeys \ {last.args.api_key} : verified[k] # {}


\* the collaborators of generate_qr_code in the encoder and renderer
Collaborators == {"QRCode", "add_data", "make", "make_image", "save"}

\* C21: nothing is retried or recovered inside the operations: a verify-key
\* request makes exactly one store lookup, a generate-qr request calls each
\* step of the encoder and renderer at most once, and when a collaborator
\* raises, the operation ends with that very exception, which is what the
\* handler's try block receives.
C21_NoRetryNoRecovery ==
    /\ VerifyDone =>
          /\ Cardinality(CallsTo(last.calls, "find_unique")) = 1
          /\ \A i \in CallsTo(last.calls, "find_unique") :
                /\ last.calls[i].args.where = last.args.api_key
                /\ last.calls[i].result.kind = "raise" =>
                      last.outcome = last.calls[i].result
    /\ GenerateDone =>
          /\ \A fn \in Collaborators : Cardinality(CallsTo(last.calls, fn)) <= 1
          /\ \A i \in 1..Len(last.calls) :
                last.calls[i].result.kind = "raise" =>
                    last.outcome = last.calls[i].result

C21_Witness ==
    /\ VerifyDone
    /\ connected
    /\ Len(last.calls) = 1
    /\ last.calls[1].result.kind = "raise"
    /\ last.outcome = last.calls[1].result


\* C22: a generate request with size 0 or with empty content is not turned
\* away before the encoder is invoked: the encoder is constructed, and if the
\* request is rejected, the exception is one the encoder or renderer raised.
C22_NoEarlyRejection ==
    (GenerateDone /\ (last.args.size = 0 \/ last.args.content = "")) =>
        /\ CallsTo(last.calls, "QRCode") # {}
        /\ last.outcome.kind = "raise" =>
              \E i \in 1..Len(last.calls) :
                  /\ last.calls[i].fn \in Collaborators
                  /\ last.calls[i].result = last.outcome


\* C23: a request through the route that the encoder and renderer accept is
\* serialized, and in the format it asks for: every save is in the requested
\* format (PNG for PNG, never SVG; SVG for SVG), and the save succeeds.
C23_RouteFormatSerialized ==
    (RouteGenerateDone /\ ValidArgs(last.args)) =>
        /\ \A i \in CallsTo(last.calls, "save") :
              last.calls[i].args.format = name_chars(last.args.format.name)
        /\ \E i \in CallsTo(last.calls, "save") :
              last.calls[i].result = Return(name_chars(last.args.format.name))


\* a step that answers a request of one of the two routes
AnswersRequest ==
    last.route = "none" /\ last'.route \in {"/auth/verify", "/qr/generate"}

\* C24: the database connection is opened once, at process start and before
\* any request is accepted or answered, and closed once, at process stop and
\* after the last request in flight was answered; it is open exactly while
\* the process serves, and every store lookup of a verify-key request is
\* made on the open connection.
C24_ConnectionLifespan ==
    /\ [](connected <=> phase = "serving")
    /\ [](phase = "starting" => InFlight = 0 /\ \A k \in ApiKeys : verified[k] = {})
    /\ [](phase = "stopped" => InFlight = 0)
    /\ [](VerifyDone => \A i \in CallsTo(last.calls, "find_unique") :
                            ~(last.calls[i].result.kind = "raise"
                              /\ last.calls[i].result.exc.type = "ClientNotConnectedError"))
    /\ [][/\ phase' # phase =>
                \/ phase = "starting" /\ phase' = "serving" /\ ~connected /\ connected'
                \/ phase = "serving" /\ phase' = "stopped" /\ connected /\ ~connected'
          /\ connected' # connected => phase' # phase
          /\ (AnswersRequest \/ pending' # pending) => connected /\ connected'
       ]_vars

C24_Witness ==
    /\ phase = "stopped"
    /\ ~connected
    /\ \E k \in ApiKeys : \E r \in verified[k] : r.is_valid
    /\ last.route = "none"

====
